---- MODULE Spec2Model ----
(***************************************************************************)
(* A model of www/transwarp/orm.py: the column descriptors (Field and its  *)
(* typed variants), the registration of a record type by ModelMetaclass,   *)
(* the DDL text of _gen_sql, and the CRUD methods of Model over the four   *)
(* primitives of the db module.                                            *)
(*                                                                         *)
(* Python values are written as strings holding their repr ("''", "0",     *)
(* "None", ...), so that values of different Python types can be compared. *)
(* The SQL backquote is written as an apostrophe: a TLA+ string cannot     *)
(* hold a backquote.                                                       *)
(***************************************************************************)
EXTENDS Integers, Sequences, FiniteSets, TLC

VARIABLES count, body, klass, sql, rows, inst, origin, clock, last, got

svars == <<count, body, klass, sql>>
cvars == <<rows, inst, origin, clock, last, got>>
vars == <<count, body, klass, sql, rows, inst, origin, clock, last, got>>

(***************************************************************************)
(* Bounds of the model.                                                    *)
(***************************************************************************)
MaxFields == 3
MaxClock == 2

(***************************************************************************)
(* Python dictionaries and values.                                         *)
(***************************************************************************)
None == "None"
Empty == [k \in {} |-> None]
Put(d, k, v) == [x \in DOMAIN d \cup {k} |-> IF x = k THEN v ELSE d[x]]
Pop(d, ks) == [x \in DOMAIN d \ ks |-> d[x]]
KwGet(kw, k, dflt) == IF k \in DOMAIN kw THEN kw[k] ELSE dflt
Falsy(v) == v \in {None, ""}
HasAttr(obj, a) == a \in DOMAIN obj
Perms(S) == {p \in [1..Cardinality(S) -> S] : \A i, j \in DOMAIN p : i # j => p[i] # p[j]}

\* A default is a plain value or a zero-argument callable.
Plain(v) == [callable |-> FALSE, v |-> v]
Callable(fn) == [callable |-> TRUE, v |-> fn]

(***************************************************************************)
(* Field and its typed variants.                                           *)
(***************************************************************************)
Field_init(cls, kw, n) ==
    [cls |-> cls,
     name |-> KwGet(kw, "name", None),
     default |-> KwGet(kw, "default", Plain(None)),
     primary_key |-> KwGet(kw, "primary_key", FALSE),
     nullable |-> KwGet(kw, "nullable", FALSE),
     updatable |-> KwGet(kw, "updatable", TRUE),
     insertable |-> KwGet(kw, "insertable", TRUE),
     ddl |-> KwGet(kw, "ddl", ""),
     order |-> n]

SetDefault(kw, k, v) == IF k \notin DOMAIN kw THEN Put(kw, k, v) ELSE kw

StringField_init(kw, n) ==
    Field_init("StringField", SetDefault(SetDefault(kw, "default", Plain("''")), "ddl", "varchar(255)"), n)

IntegerField_init(kw, n) ==
    Field_init("IntegerField", SetDefault(SetDefault(kw, "default", Plain("0")), "ddl", "bigint"), n)

FloatField_init(kw, n) ==
    Field_init("FloatField", SetDefault(SetDefault(kw, "default", Plain("0.0")), "ddl", "real"), n)

BooleanField_init(kw, n) ==
    Field_init("BooleanField", SetDefault(SetDefault(kw, "default", Plain("False")), "ddl", "bool"), n)

\* The source stores the ddl clause under the key 'dll' when none is given.
TextField_init(kw, n) ==
    Field_init("TextField",
               LET kw1 == SetDefault(kw, "default", Plain("''"))
               IN  IF "ddl" \notin DOMAIN kw1 THEN Put(kw1, "dll", "text") ELSE kw1,
               n)

BlobField_init(kw, n) ==
    Field_init("BlobField", SetDefault(SetDefault(kw, "default", Plain("''")), "ddl", "blob"), n)

\* VersionField takes the single parameter name.
VersionField_init(kw, n) ==
    Field_init("VersionField",
               [name |-> KwGet(kw, "name", None), default |-> Plain("0"), ddl |-> "bigint"], n)

NewField(cls, kw, n) ==
    CASE cls = "Field" -> Field_init("Field", kw, n)
      [] cls = "StringField" -> StringField_init(kw, n)
      [] cls = "IntegerField" -> IntegerField_init(kw, n)
      [] cls = "FloatField" -> FloatField_init(kw, n)
      [] cls = "BooleanField" -> BooleanField_init(kw, n)
      [] cls = "TextField" -> TextField_init(kw, n)
      [] cls = "BlobField" -> BlobField_init(kw, n)
      [] cls = "VersionField" -> VersionField_init(kw, n)

_triggers == {"pre_insert", "pre_update", "pre_delete"}

(***************************************************************************)
(* _gen_sql: the CREATE TABLE text of a mapping.  values is the list       *)
(* mappings.values() in the dictionary's iteration order.                  *)
(***************************************************************************)
\* sorted(values, cmp on _order): a stable insertion sort.
RECURSIVE InsertByOrder(_, _)
InsertByOrder(s, f) ==
    IF s = <<>> THEN <<f>>
    ELSE IF Head(s).order <= f.order THEN <<Head(s)>> \o InsertByOrder(Tail(s), f)
    ELSE <<f>> \o s

\* The values as the dictionary iterates them, not sorted.
SortedByOrder_Unsorted(values) == values

RECURSIVE SortedByOrder(_)
SortedByOrder(values) ==
    IF values = <<>> THEN <<>>
    ELSE InsertByOrder(SortedByOrder(SubSeq(values, 1, Len(values) - 1)), values[Len(values)])

ColumnLine(f) ==
    IF f.nullable THEN "  '" \o f.name \o "' " \o f.ddl \o ","
    ELSE "  '" \o f.name \o "' " \o f.ddl \o " not null,"

\* One pass of the loop body: the error, or the line appended and pk kept.
RECURSIVE GenLoop(_, _, _)
GenLoop(fs, acc, i) ==
    IF i > Len(fs) \/ acc.err # None THEN acc
    ELSE LET f == fs[i]
         IN  IF ~HasAttr(f, "ddl")
             THEN [acc EXCEPT !.err = "StandardError"]
             ELSE GenLoop(fs,
                          [acc EXCEPT !.pk = IF f.primary_key THEN f.name ELSE @,
                                      !.lines = Append(@, ColumnLine(f))],
                          i + 1)

RECURSIVE Join(_, _)
Join(lines, sep) ==
    IF lines = <<>> THEN ""
    ELSE IF Len(lines) = 1 THEN lines[1]
    ELSE lines[1] \o sep \o Join(Tail(lines), sep)

_gen_sql(table_name, values) ==
    LET start == [err |-> None, pk |-> None,
                  lines |-> <<"-- generating SQL for " \o table_name \o ":",
                              "create table '" \o table_name \o "' (">>]
        acc == GenLoop(SortedByOrder(values), start, 1)
        lines == acc.lines \o <<"  primary key('" \o acc.pk \o "')", ");">>
    IN  IF acc.err # None
        THEN [err |-> acc.err, lines |-> <<>>, text |-> None]
        ELSE [err |-> None, lines |-> lines, text |-> Join(lines, "\n")]

(***************************************************************************)
(* ModelMetaclass.__new__: the registration of a record type.  fields are  *)
(* the attributes of the class body holding a Field, other the remaining   *)
(* attributes, iter the iteration order of the attribute dictionary.       *)
(***************************************************************************)
Lower(name) ==
    CASE name = "User" -> "user"
      [] name = "Model" -> "model"
      [] OTHER -> name

\* primary_key = None before any primary key is found.
NoField == [cls |-> None]

\* The loop body without the check for a second primary key: the later one
\* replaces the earlier.
ScanField_NoDuplicateCheck(acc, k, v) ==
    LET v1 == IF Falsy(v.name) THEN [v EXCEPT !.name = k] ELSE v
    IN  IF v1.primary_key
        THEN LET v2 == IF v1.updatable THEN [v1 EXCEPT !.updatable = FALSE] ELSE v1
                 v3 == IF v2.nullable THEN [v2 EXCEPT !.nullable = FALSE] ELSE v2
             IN  [acc EXCEPT !.primary_key = v3, !.mappings = Put(@, k, v3)]
        ELSE [acc EXCEPT !.mappings = Put(@, k, v1)]

\* The loop body that leaves the flags of the primary key as declared.
ScanField_KeepFlags(acc, k, v) ==
    LET v1 == IF Falsy(v.name) THEN [v EXCEPT !.name = k] ELSE v
    IN  IF v1.primary_key
        THEN IF acc.primary_key # NoField
             THEN [acc EXCEPT !.err = "TypeError: Cannot define more than 1 primary key"]
             ELSE [acc EXCEPT !.primary_key = v1, !.mappings = Put(@, k, v1)]
        ELSE [acc EXCEPT !.mappings = Put(@, k, v1)]

\* The loop body for one attribute k holding the Field v.
ScanField(acc, k, v) ==
    LET v1 == IF Falsy(v.name) THEN [v EXCEPT !.name = k] ELSE v
    IN  IF v1.primary_key
        THEN IF acc.primary_key # NoField
             THEN [acc EXCEPT !.err = "TypeError: Cannot define more than 1 primary key"]
             ELSE LET v2 == IF v1.updatable THEN [v1 EXCEPT !.updatable = FALSE] ELSE v1
                      v3 == IF v2.nullable THEN [v2 EXCEPT !.nullable = FALSE] ELSE v2
                  IN  [acc EXCEPT !.primary_key = v3, !.mappings = Put(@, k, v3)]
        ELSE [acc EXCEPT !.mappings = Put(@, k, v1)]

RECURSIVE Scan(_, _, _, _)
Scan(fields, iter, i, acc) ==
    IF i > Len(iter) \/ acc.err # None THEN acc
    ELSE Scan(fields, iter, i + 1, ScanField(acc, iter[i], fields[iter[i]]))

NoClass == [status |-> "none"]

\* The error the class statement raises, None when it raises none.
CheckPrimaryKey(acc) ==
    IF acc.err # None THEN acc.err
    ELSE IF acc.primary_key = NoField THEN "TypeError: Primary key not defined"
    ELSE None

ModelMetaclass_new(name, fields, other, iter) ==
    IF name = "Model"
    THEN [status |-> "base", name |-> name]
    ELSE LET acc == Scan(fields, iter, 1, [err |-> None, primary_key |-> NoField, mappings |-> Empty])
             err == CheckPrimaryKey(acc)
         IN  IF err # None
             THEN [status |-> "error", name |-> name, err |-> err]
             ELSE [status |-> "ok",
                   name |-> name,
                   table |-> IF "__table__" \in DOMAIN other THEN other["__table__"] ELSE Lower(name),
                   mappings |-> acc.mappings,
                   primary_key |-> acc.primary_key,
                   hooks |-> [t \in _triggers |-> IF t \in DOMAIN other THEN other[t] ELSE None]]

(***************************************************************************)
(* Field.default, the lifecycle hooks and the clock.  time.time() returns  *)
(* a new value on every call.                                              *)
(***************************************************************************)
Time(c) == "t" \o ToString(c)

\* Field.default: d() if callable(d) else d.
Field_default(f, c) ==
    IF f.default.callable
    THEN IF f.default.v = "time.time"
         THEN [value |-> Time(c), clock |-> c + 1]
         ELSE [value |-> "'******'", clock |-> c]
    ELSE [value |-> f.default.v, clock |-> c]

\* The hook of the source: self.last_modified = time.time().
stamp(self, c) == [self |-> Put(self, "last_modified", Time(c)), clock |-> c + 1]

\* self.pre_insert and self.pre_insert(), and the two others alike.
RunHook(k, trigger, self, c) ==
    IF k.hooks[trigger] # None THEN stamp(self, c) ELSE [self |-> self, clock |-> c]

(***************************************************************************)
(* The db module: the table of one record type and the primitives on it.   *)
(* A row maps every column of the table to a value, None for NULL.  The    *)
(* table has the columns of the mapping and the primary key constraint.    *)
(***************************************************************************)
Columns(k) == {k.mappings[a].name : a \in DOMAIN k.mappings}

db_insert(k, table, params, fail) ==
    LET pk == k.primary_key.name
    IN  IF fail THEN [err |-> "OperationalError", rows |-> table]
        ELSE IF ~(DOMAIN params \subseteq Columns(k))
        THEN [err |-> "ProgrammingError", rows |-> table]
        ELSE IF pk \notin DOMAIN params \/ params[pk] = None \/ (\E r \in table : r[pk] = params[pk])
        THEN [err |-> "IntegrityError", rows |-> table]
        ELSE [err |-> None,
              rows |-> table \cup {[c \in Columns(k) |-> IF c \in DOMAIN params THEN params[c] ELSE None]}]

\* A where clause <col>=<val>; NoWhere when the statement has none.
NoWhere == [col |-> None, val |-> None]
Matches(r, where) == where = NoWhere \/ r[where.col] = where.val
BadWhere(k, where) == where # NoWhere /\ where.col \notin Columns(k)

\* update <table> set <sets> [where <col>=<val>]
db_update_set(k, table, sets, where, fail) ==
    IF fail THEN [err |-> "OperationalError", rows |-> table]
    ELSE IF DOMAIN sets = {} \/ ~(DOMAIN sets \subseteq Columns(k)) \/ BadWhere(k, where)
    THEN [err |-> "ProgrammingError", rows |-> table]
    ELSE [err |-> None,
          rows |-> {IF Matches(r, where)
                    THEN [c \in Columns(k) |-> IF c \in DOMAIN sets THEN sets[c] ELSE r[c]]
                    ELSE r : r \in table}]

\* delete from <table> [where <col>=<val>]
db_update_delete(k, table, where, fail) ==
    IF fail THEN [err |-> "OperationalError", rows |-> table]
    ELSE IF BadWhere(k, where) THEN [err |-> "ProgrammingError", rows |-> table]
    ELSE [err |-> None, rows |-> {r \in table : ~Matches(r, where)}]

\* select * from <table> [where <col>=<val>]: the matching rows.
db_select(k, table, where) == {r \in table : Matches(r, where)}

(***************************************************************************)
(* Model: the record and its CRUD methods.                                 *)
(***************************************************************************)
Model_init(kw) == kw

\* The value None where a record is expected.
Absent == [absent |-> TRUE]

Model_setattr(self, key, value) == Put(self, key, value)

\* The loop body of insert that hands the default to the primitive, not
\* the value of the attribute.
InsertField_DefaultAsParam(acc, a, v) ==
    IF v.insertable
    THEN LET d == Field_default(v, acc.clock)
             missing == ~HasAttr(acc.self, a)
             self1 == IF missing THEN Model_setattr(acc.self, a, d.value) ELSE acc.self
         IN  [self |-> self1,
              clock |-> IF missing THEN d.clock ELSE acc.clock,
              evals |-> IF missing THEN acc.evals + 1 ELSE acc.evals,
              params |-> Put(acc.params, v.name, d.value)]
    ELSE acc

\* The loop body of insert that sets the default on the instance whether or
\* not the attribute has a value.
InsertField_AlwaysDefault(acc, a, v) ==
    IF v.insertable
    THEN LET d == Field_default(v, acc.clock)
             self1 == Model_setattr(acc.self, a, d.value)
         IN  [self |-> self1,
              clock |-> d.clock,
              evals |-> acc.evals + 1,
              params |-> Put(acc.params, v.name, self1[a])]
    ELSE acc

\* The loop body of insert for the attribute a holding the Field v.
InsertField(acc, a, v) ==
    IF v.insertable
    THEN LET d == Field_default(v, acc.clock)
             missing == ~HasAttr(acc.self, a)
             self1 == IF missing THEN Model_setattr(acc.self, a, d.value) ELSE acc.self
         IN  [self |-> self1,
              clock |-> IF missing THEN d.clock ELSE acc.clock,
              evals |-> IF missing THEN acc.evals + 1 ELSE acc.evals,
              params |-> Put(acc.params, v.name, self1[a])]
    ELSE acc

RECURSIVE InsertLoop(_, _, _, _)
InsertLoop(k, iter, i, acc) ==
    IF i > Len(iter) THEN acc
    ELSE InsertLoop(k, iter, i + 1, InsertField(acc, iter[i], k.mappings[iter[i]]))

Model_insert(k, self, c, table, iter, fail) ==
    LET h == RunHook(k, "pre_insert", self, c)
        acc == InsertLoop(k, iter, 1, [self |-> h.self, clock |-> h.clock, evals |-> 0, params |-> Empty])
        r == db_insert(k, table, acc.params, fail)
    IN  [self |-> acc.self, clock |-> acc.clock, rows |-> r.rows,
         raised |-> r.err, dberr |-> r.err, called |-> TRUE,
         hooked |-> h.self, evals |-> acc.evals, params |-> acc.params]

\* The loop body of update that sets the default on the instance whether or
\* not the attribute has a value.
UpdateField_AlwaysDefault(acc, a, v) ==
    IF v.updatable
    THEN LET d == Field_default(v, acc.clock)
         IN  [self |-> Model_setattr(acc.self, a, d.value),
              clock |-> d.clock,
              evals |-> acc.evals + 1,
              params |-> Put(acc.params, a, d.value)]
    ELSE acc

\* The loop body of update for the attribute a holding the Field v.
UpdateField(acc, a, v) ==
    IF v.updatable
    THEN LET d == Field_default(v, acc.clock)
             missing == ~HasAttr(acc.self, a)
             arg == IF missing THEN d.value ELSE acc.self[a]
         IN  [self |-> IF missing THEN Model_setattr(acc.self, a, arg) ELSE acc.self,
              clock |-> IF missing THEN d.clock ELSE acc.clock,
              evals |-> IF missing THEN acc.evals + 1 ELSE acc.evals,
              params |-> Put(acc.params, a, arg)]
    ELSE acc

RECURSIVE UpdateLoop(_, _, _, _)
UpdateLoop(k, iter, i, acc) ==
    IF i > Len(iter) THEN acc
    ELSE UpdateLoop(k, iter, i + 1, UpdateField(acc, iter[i], k.mappings[iter[i]]))

\* update() whose statement has no where clause.
Model_update_NoWhere(k, self, c, table, iter, fail) ==
    LET h == RunHook(k, "pre_update", self, c)
        acc == UpdateLoop(k, iter, 1, [self |-> h.self, clock |-> h.clock, evals |-> 0, params |-> Empty])
        pk == k.primary_key.name
    IN  IF ~HasAttr(acc.self, pk)
        THEN [self |-> acc.self, clock |-> acc.clock, rows |-> table,
              raised |-> "AttributeError", dberr |-> None, called |-> FALSE,
              hooked |-> h.self, evals |-> acc.evals, params |-> acc.params]
        ELSE LET r == db_update_set(k, table, acc.params, NoWhere, fail)
             IN  [self |-> acc.self, clock |-> acc.clock, rows |-> r.rows,
                  raised |-> r.err, dberr |-> r.err, called |-> TRUE,
                  hooked |-> h.self, evals |-> acc.evals, params |-> acc.params]

Model_update(k, self, c, table, iter, fail) ==
    LET h == RunHook(k, "pre_update", self, c)
        acc == UpdateLoop(k, iter, 1, [self |-> h.self, clock |-> h.clock, evals |-> 0, params |-> Empty])
        pk == k.primary_key.name
    IN  IF ~HasAttr(acc.self, pk)
        THEN [self |-> acc.self, clock |-> acc.clock, rows |-> table,
              raised |-> "AttributeError", dberr |-> None, called |-> FALSE,
              hooked |-> h.self, evals |-> acc.evals, params |-> acc.params]
        ELSE LET r == db_update_set(k, table, acc.params, [col |-> pk, val |-> acc.self[pk]], fail)
             IN  [self |-> acc.self, clock |-> acc.clock, rows |-> r.rows,
                  raised |-> r.err, dberr |-> r.err, called |-> TRUE,
                  hooked |-> h.self, evals |-> acc.evals, params |-> acc.params]

Model_delete(k, self, c, table, fail) ==
    LET h == RunHook(k, "pre_delete", self, c)
        pk == k.primary_key.name
    IN  IF ~HasAttr(h.self, pk)
        THEN [self |-> h.self, clock |-> h.clock, rows |-> table,
              raised |-> "AttributeError", dberr |-> None, called |-> FALSE,
              hooked |-> h.self, evals |-> 0, params |-> Empty]
        ELSE LET r == db_update_delete(k, table, [col |-> pk, val |-> h.self[pk]], fail)
             IN  [self |-> h.self, clock |-> h.clock, rows |-> r.rows,
                  raised |-> r.err, dberr |-> r.err, called |-> TRUE,
                  hooked |-> h.self, evals |-> 0, params |-> Empty]

\* cls(**d) if d else None, for the rows select_one may return (the first
\* matching row, in an order the database chooses).
Model_get(k, table, pk) ==
    LET found == db_select(k, table, [col |-> k.primary_key.name, val |-> pk])
    IN  IF found = {} THEN {Absent} ELSE {Model_init(d) : d \in found}

Model_find_first(k, table, where) ==
    LET found == db_select(k, table, where)
    IN  IF found = {} THEN {Absent} ELSE {Model_init(d) : d \in found}

Model_find_all(k, table) == {Model_init(d) : d \in db_select(k, table, NoWhere)}

Model_find_by(k, table, where) == {Model_init(d) : d \in db_select(k, table, where)}

\* select count(pk): the rows whose primary key is not NULL.
Model_count_all(k, table) ==
    Cardinality({r \in db_select(k, table, NoWhere) : r[k.primary_key.name] # None})

Model_count_by(k, table, where) ==
    Cardinality({r \in db_select(k, table, where) : r[k.primary_key.name] # None})

(***************************************************************************)
(* The declarations the schema specification draws class bodies from.      *)
(***************************************************************************)
AttrKeys == <<"id", "name", "email", "passwd">>

SchemaCalls ==
    {[cls |-> "IntegerField", kw |-> [primary_key |-> TRUE]],
     [cls |-> "StringField", kw |-> [primary_key |-> TRUE, nullable |-> TRUE, name |-> "uid"]],
     [cls |-> "StringField", kw |-> [nullable |-> TRUE]],
     [cls |-> "Field", kw |-> Empty],
     [cls |-> "TextField", kw |-> Empty],
     [cls |-> "BooleanField", kw |-> Empty],
     [cls |-> "BlobField", kw |-> Empty],
     [cls |-> "VersionField", kw |-> Empty]}

SchemaOthers ==
    {Empty, [__table__ |-> "t_user", pre_insert |-> "stamp"]}

NoSql == [err |-> None, lines |-> <<>>, text |-> None, called |-> FALSE, iter |-> <<>>]
NoLast == [op |-> "none"]
NoGot == [op |-> "none", arg |-> [col |-> None, val |-> None], result |-> [absent |-> TRUE]]

InitSchema ==
    /\ count = 0
    /\ body \in {[fields |-> Empty, other |-> o] : o \in SchemaOthers}
    /\ klass = NoClass
    /\ sql = NoSql
    /\ rows = {}
    /\ inst = Empty
    /\ origin = None
    /\ clock = 0
    /\ last = NoLast
    /\ got = NoGot

\* One more attribute of the class body: k = cls(**kw).
DeclareField ==
    \E call \in SchemaCalls :
    /\ klass = NoClass
    /\ count < MaxFields
    /\ count < Len(AttrKeys)
    /\ body' = [body EXCEPT !.fields = Put(@, AttrKeys[count + 1], NewField(call.cls, call.kw, count))]
    /\ count' = count + 1
    /\ UNCHANGED <<klass, sql>>
    /\ UNCHANGED cvars

\* The class statement ends: the metaclass builds the class.
Register ==
    \E name \in {"User", "Model"}, iter \in Perms(DOMAIN body.fields) :
    /\ klass = NoClass
    /\ klass' = ModelMetaclass_new(name, body.fields, body.other, iter)
    /\ UNCHANGED <<count, body, sql>>
    /\ UNCHANGED cvars

\* User().__sql__()
GenSql ==
    /\ klass.status = "ok"
    /\ ~sql.called
    /\ \E viter \in Perms(DOMAIN klass.mappings) :
          LET r == _gen_sql(klass.table, [i \in DOMAIN viter |-> klass.mappings[viter[i]]])
          IN  sql' = [err |-> r.err, lines |-> r.lines, text |-> r.text, called |-> TRUE, iter |-> viter]
    /\ UNCHANGED <<count, body, klass>>
    /\ UNCHANGED cvars

NextSchema ==
    \/ DeclareField
    \/ Register
    \/ GenSql

SpecSchema == InitSchema /\ [][NextSchema]_vars

(***************************************************************************)
(* The record types and the inputs the CRUD specification draws from.      *)
(***************************************************************************)
\* The class body whose i-th statement is decls[i].key = decls[i].cls(**kw).
ClassBody(decls, other) ==
    [fields |-> [a \in {decls[i].key : i \in DOMAIN decls} |->
                    LET i == CHOOSE j \in DOMAIN decls : decls[j].key = a
                    IN  NewField(decls[i].cls, decls[i].kw, i - 1)],
     other |-> other]

Decl(key, cls, kw) == [key |-> key, cls |-> cls, kw |-> kw]

\* The record type of the doctest without its hook and its passwd column.
UserBody ==
    ClassBody(<<Decl("id", "IntegerField", [primary_key |-> TRUE]),
                Decl("name", "StringField", Empty),
                Decl("email", "StringField", [updatable |-> FALSE])>>, Empty)

\* A callable default that returns a new value on every call.
PasswdBody ==
    ClassBody(<<Decl("id", "IntegerField", [primary_key |-> TRUE]),
                Decl("passwd", "StringField", [default |-> Callable("time.time")])>>, Empty)

NoteBody ==
    ClassBody(<<Decl("id", "IntegerField", [primary_key |-> TRUE]),
                Decl("note", "StringField", [insertable |-> FALSE])>>, Empty)

\* A column whose name is not the name of its attribute.
NickBody ==
    ClassBody(<<Decl("id", "IntegerField", [primary_key |-> TRUE]),
                Decl("nick", "StringField", [name |-> "nickname"])>>, Empty)

\* A primary key declared nullable, under a column name of its own.
UidBody ==
    ClassBody(<<Decl("id", "IntegerField", [primary_key |-> TRUE, nullable |-> TRUE, name |-> "uid"]),
                Decl("name", "StringField", Empty)>>, Empty)

\* The hook of the doctest.
StampInsertBody ==
    ClassBody(<<Decl("id", "IntegerField", [primary_key |-> TRUE]),
                Decl("last_modified", "FloatField", Empty)>>, [pre_insert |-> "stamp"])

StampUpdateBody ==
    ClassBody(<<Decl("id", "IntegerField", [primary_key |-> TRUE]),
                Decl("last_modified", "FloatField", Empty)>>,
              [pre_update |-> "stamp", pre_delete |-> "stamp"])

CrudBodies ==
    {UserBody, PasswdBody, NoteBody, NickBody, UidBody, StampInsertBody, StampUpdateBody}

PkVals == {"0", "1"}
DataVals == {"'a'"}

PkAttr(k) == CHOOSE a \in DOMAIN k.mappings : k.mappings[a].primary_key
PkName(k) == k.primary_key.name
\* The values a caller gives the attribute or column key.
ValsFor(k, key) == IF key \in {PkAttr(k), PkName(k)} THEN PkVals ELSE DataVals
Keys(k) == DOMAIN k.mappings \cup Columns(k)
Kws(k) == UNION {{kw \in [S -> PkVals \cup DataVals] : \A a \in S : kw[a] \in ValsFor(k, a)} :
                 S \in SUBSET DOMAIN k.mappings}
Wheres(k) == {[col |-> c, val |-> v] : c \in Columns(k) \ {PkName(k)}, v \in DataVals}

NoParams == [none |-> TRUE]

Init ==
    /\ \E b \in CrudBodies : \E iter \in Perms(DOMAIN b.fields) :
          /\ body = b
          /\ klass = ModelMetaclass_new("User", b.fields, b.other, iter)
          /\ count = Cardinality(DOMAIN b.fields)
    /\ sql = NoSql
    /\ rows = {}
    /\ inst = Empty
    /\ origin = None
    /\ clock = 0
    /\ last = NoLast
    /\ got = NoGot

\* u = User(**kw)
Construct ==
    \E kw \in Kws(klass) :
    /\ inst' = Model_init(kw)
    /\ origin' = None
    /\ last' = [op |-> "init"]
    /\ got' = NoGot
    /\ UNCHANGED <<rows, clock>>
    /\ UNCHANGED svars

\* u.key = value
SetAttr ==
    \E key \in Keys(klass) : \E value \in ValsFor(klass, key) :
    /\ inst' = Model_setattr(inst, key, value)
    /\ last' = [op |-> "setattr"]
    /\ got' = NoGot
    /\ UNCHANGED <<rows, origin, clock>>
    /\ UNCHANGED svars

\* What a call of insert, update or delete leaves behind, r being its outcome.
Called(op, r) ==
    /\ r.clock <= MaxClock
    /\ inst' = r.self
    /\ clock' = r.clock
    /\ rows' = r.rows
    /\ last' = [op |-> op, pre |-> inst, rowsBefore |-> rows, originBefore |-> origin,
                clockBefore |-> clock, raised |-> r.raised, dberr |-> r.dberr,
                called |-> r.called, hooked |-> r.hooked, evals |-> r.evals,
                params |-> r.params,
                prevParams |-> IF last.op = "insert" /\ op = "insert" THEN last.params ELSE NoParams]
    /\ got' = NoGot
    /\ UNCHANGED svars

Insert ==
    \E fail \in BOOLEAN, iter \in Perms(DOMAIN klass.mappings) :
        LET r == Model_insert(klass, inst, clock, rows, iter, fail)
        IN  /\ Called("insert", r)
            /\ origin' = IF r.raised = None THEN r.params[PkName(klass)] ELSE origin

Update ==
    \E fail \in BOOLEAN, iter \in Perms(DOMAIN klass.mappings) :
        LET r == Model_update(klass, inst, clock, rows, iter, fail)
        IN  /\ Called("update", r)
            /\ origin' = origin

Delete ==
    \E fail \in BOOLEAN :
        LET r == Model_delete(klass, inst, clock, rows, fail)
        IN  /\ Called("delete", r)
            /\ origin' = IF r.raised = None THEN None ELSE origin

\* The result of a query, kept until the next call that is not a query.
Query(op, arg, result) ==
    /\ got' = [op |-> op, arg |-> arg, result |-> result]
    /\ UNCHANGED <<rows, inst, origin, clock, last>>
    /\ UNCHANGED svars

Get ==
    \E pk \in PkVals : \E res \in Model_get(klass, rows, pk) :
        Query("get", [col |-> PkName(klass), val |-> pk], res)

FindFirst ==
    \E where \in Wheres(klass) : \E res \in Model_find_first(klass, rows, where) :
        Query("find_first", where, res)

FindAll == \E res \in {Model_find_all(klass, rows)} : Query("find_all", NoWhere, res)

FindBy == \E where \in Wheres(klass) : Query("find_by", where, Model_find_by(klass, rows, where))

CountAll == \E res \in {Model_count_all(klass, rows)} : Query("count_all", NoWhere, res)

CountBy == \E where \in Wheres(klass) : Query("count_by", where, Model_count_by(klass, rows, where))

\* f = User.get(...): the caller goes on with the record a query returned.
Adopt ==
    /\ got.op \in {"get", "find_first"}
    /\ got.result # Absent
    /\ inst' = got.result
    /\ origin' = got.result[PkName(klass)]
    /\ last' = [op |-> "adopt"]
    /\ got' = NoGot
    /\ UNCHANGED <<rows, clock>>
    /\ UNCHANGED svars

Next ==
    \/ Construct
    \/ SetAttr
    \/ Insert
    \/ Update
    \/ Delete
    \/ Get
    \/ FindFirst
    \/ FindAll
    \/ FindBy
    \/ CountAll
    \/ CountBy
    \/ Adopt

Spec == Init /\ [][Next]_vars

(***************************************************************************)
(* Properties of registration and of the DDL text.                         *)
(***************************************************************************)
Registered == klass.status \in {"ok", "error"}
DeclaredPks == {k \in DOMAIN body.fields : body.fields[k].primary_key}
Values(iter) == [i \in DOMAIN iter |-> klass.mappings[iter[i]]]
Ascending == CHOOSE p \in Perms(DOMAIN klass.mappings) :
                 \A i, j \in DOMAIN p : i < j => klass.mappings[p[i]].order < klass.mappings[p[j]].order

\* C1: a record type (any class statement but that of the base class Model,
\* which the metaclass does not register) is registered exactly when one
\* declared Field has primary_key = true; the mapping then holds every declared
\* Field, __primary_key__ is the descriptor of that attribute and the only one
\* of the mapping with primary_key = true.  With zero or several primary keys
\* the class statement raises TypeError and no mapping exists.
C1_ExactlyOnePrimaryKey ==
    Registered =>
        /\ (klass.status = "ok") <=> (Cardinality(DeclaredPks) = 1)
        /\ klass.status = "ok" =>
              /\ DOMAIN klass.mappings = DOMAIN body.fields
              /\ \A k \in DOMAIN klass.mappings :
                    klass.mappings[k].primary_key <=> (k \in DeclaredPks)
              /\ \A k \in DeclaredPks : klass.primary_key = klass.mappings[k]
        /\ klass.status = "error" =>
              /\ klass.err \in {"TypeError: Cannot define more than 1 primary key",
                                "TypeError: Primary key not defined"}
              /\ "mappings" \notin DOMAIN klass
              /\ Cardinality(DeclaredPks) # 1

\* A class statement with three fields, two of them primary keys, has failed.
C1_Witness ==
    /\ klass.status = "error"
    /\ Cardinality(DeclaredPks) = 2
    /\ Cardinality(DOMAIN body.fields) = 3

C4_DdlFailsOnEmptyDdl ==
    (sql.called /\ \E k \in DOMAIN klass.mappings :
                      \/ ~HasAttr(klass.mappings[k], "ddl")
                      \/ Falsy(klass.mappings[k].ddl))
        => (sql.err # None /\ sql.text = None)

(***************************************************************************)
(* Properties of the CRUD methods.  last is the latest call of insert,     *)
(* update or delete: the instance before it (pre), after its hook          *)
(* (hooked), the table before it, what it raised.  got is the latest query *)
(* since.  origin is the primary key the instance was inserted or loaded   *)
(* with.                                                                   *)
(***************************************************************************)
M == klass.mappings
Mutation == last.op \in {"insert", "update", "delete"}
Hook(op) == klass.hooks["pre_" \o op]
\* What the hook of the source may assign.
HookAssigns == {"last_modified"}
\* The hook of the latest call assigned nothing but what it may assign.
HookedFromPre ==
    /\ DOMAIN last.pre \subseteq DOMAIN last.hooked
    /\ \A a \in DOMAIN last.pre \ HookAssigns : last.hooked[a] = last.pre[a]
    /\ Hook(last.op) = None => last.hooked = last.pre
RowOf(table, pk) == {r \in table : r[PkName(klass)] = pk}
GotRow(pk) == got.op = "get" /\ got.arg.val = pk

\* C2: the primary key of a registered record type is neither updatable nor
\* nullable, whatever it was declared with, in the mapping and as
\* __primary_key__, after any sequence of CRUD calls and queries.
C2_PrimaryKeyNormalized ==
    klass.status = "ok" =>
        /\ ~klass.primary_key.updatable
        /\ ~klass.primary_key.nullable
        /\ klass.primary_key.primary_key
        /\ \A a \in DOMAIN M : M[a].primary_key => (~M[a].updatable /\ ~M[a].nullable)

\* A primary key declared nullable (and updatable by default), after an
\* insert, an update, a delete and a count.
C2_Witness ==
    /\ klass.status = "ok"
    /\ \E a \in DOMAIN body.fields :
          /\ body.fields[a].primary_key
          /\ body.fields[a].nullable
          /\ body.fields[a].updatable
    /\ last.op = "update"
    /\ last.raised = None
    /\ rows # {}
    /\ got.op = "count_all"

InsertThenGet ==
    /\ last.op = "insert"
    /\ last.raised = None
    /\ RowOf(last.rowsBefore, last.params[PkName(klass)]) = {}
    /\ GotRow(last.params[PkName(klass)])
InsertableUpdatable == {a \in DOMAIN M : M[a].insertable /\ M[a].updatable}

\* C5 as stated: insert() then get(primary key) returns every insertable and
\* updatable column with the value set on the record before insert().
C5_RoundTripValuesSetBefore ==
    InsertThenGet =>
        /\ got.result # Absent
        /\ \A a \in InsertableUpdatable \cap DOMAIN last.pre :
              got.result[M[a].name] = last.pre[a]

\* C5 amended: insert() then get(primary key) returns every insertable and
\* updatable column with the value the record held when the pre_insert hook
\* had run, which is the value set before insert() unless the hook assigned
\* the attribute.
C5_RoundTripValuesAfterHook ==
    InsertThenGet =>
        /\ got.result # Absent
        /\ DOMAIN got.result = Columns(klass)
        /\ HookedFromPre
        /\ \A a \in InsertableUpdatable \cap DOMAIN last.hooked :
              got.result[M[a].name] = last.hooked[a]

\* A value set before insert() and replaced by the hook has come back.
C5_Witness ==
    /\ InsertThenGet
    /\ got.result # Absent
    /\ \E a \in InsertableUpdatable \cap DOMAIN last.pre :
          /\ last.hooked[a] # last.pre[a]
          /\ got.result[M[a].name] = last.hooked[a]
    /\ \E a \in DOMAIN last.pre :
          /\ got.result[M[a].name] = last.pre[a]
          /\ got.result[M[a].name] # M[a].default.v

\* The primary key attribute of an instance, under the key of the attribute
\* or under the name of the column.
PkOf(self) ==
    IF HasAttr(self, PkAttr(klass)) THEN self[PkAttr(klass)]
    ELSE IF HasAttr(self, PkName(klass)) THEN self[PkName(klass)]
    ELSE None

\* The latest call acted on a stored record whose primary key was not
\* changed, and the storage was available.
OnStored(op) ==
    /\ last.op = op
    /\ last.originBefore # None
    /\ PkOf(last.pre) = last.originBefore
    /\ HasAttr(last.pre, PkName(klass)) => last.pre[PkName(klass)] = last.originBefore
    /\ RowOf(last.rowsBefore, last.originBefore) # {}
    /\ last.dberr # "OperationalError"

\* C6: update() of a stored record whose primary key was not changed leaves
\* the stored value of every column that is not updatable, stores the value of
\* every updatable column the record holds, and changes no other row.
C6_UpdateSemantics ==
    OnStored("update") =>
        /\ \A r \in last.rowsBefore : r[PkName(klass)] # last.originBefore => r \in rows
        /\ Cardinality(rows) = Cardinality(last.rowsBefore)
        /\ GotRow(last.originBefore) =>
              /\ got.result # Absent
              /\ \A a \in DOMAIN M :
                    /\ ~M[a].updatable =>
                          \A r \in RowOf(last.rowsBefore, last.originBefore) :
                              got.result[M[a].name] = r[M[a].name]
                    /\ (M[a].updatable /\ HasAttr(last.hooked, a)) =>
                          got.result[M[a].name] = last.hooked[a]

\* C7: delete() of a stored record removes its row and no other, get and
\* find_first then return absence, and the instance keeps its values.
C7_DeleteThenAbsent ==
    OnStored("delete") =>
        /\ last.raised = None
        /\ rows = last.rowsBefore \ RowOf(last.rowsBefore, last.originBefore)
        /\ \A a \in DOMAIN last.pre : HasAttr(inst, a) /\ inst[a] = last.hooked[a]
        /\ GotRow(last.originBefore) => got.result = Absent
        /\ (got.op = "find_first"
              /\ db_select(klass, last.rowsBefore, got.arg) = RowOf(last.rowsBefore, last.originBefore))
              => got.result = Absent

\* update() was called after the primary key attribute it reads was changed.
PkChanged ==
    /\ last.op = "update"
    /\ last.originBefore # None
    /\ HasAttr(last.pre, PkName(klass))
    /\ last.pre[PkName(klass)] # last.originBefore

Insertable == {a \in DOMAIN M : M[a].insertable}
\* The values the Field may give as its default during the latest call.
DefaultsOf(f) == {Field_default(f, c).value : c \in last.clockBefore..clock}

\* C9 as stated: after insert() every insertable column is set on the
\* instance, to the value set before if there was one; the insert primitive
\* gets exactly these values; a second insert() passes the same values and
\* evaluates no default.
C9_InsertMaterializesDefaults ==
    last.op = "insert" =>
        /\ \A a \in Insertable :
              /\ HasAttr(inst, a)
              /\ HasAttr(last.pre, a) => inst[a] = last.pre[a]
              /\ last.params[M[a].name] = inst[a]
        /\ DOMAIN last.params = {M[a].name : a \in Insertable}
        /\ last.prevParams # NoParams =>
              /\ last.evals = 0
              /\ last.params = last.prevParams

\* C9 amended: the same with the value the instance holds once the pre_insert
\* hook has run in place of the value set before; a second insert() passes
\* the same values for the columns its hook does not assign.
C9_InsertMaterializesDefaultsAfterHook ==
    last.op = "insert" =>
        /\ HookedFromPre
        /\ \A a \in Insertable :
              /\ HasAttr(inst, a)
              /\ HasAttr(last.hooked, a) => inst[a] = last.hooked[a]
              /\ ~HasAttr(last.hooked, a) => inst[a] \in DefaultsOf(M[a])
              /\ last.params[M[a].name] = inst[a]
        /\ DOMAIN last.params = {M[a].name : a \in Insertable}
        /\ last.evals = Cardinality({a \in Insertable : ~HasAttr(last.hooked, a)})
        /\ last.prevParams # NoParams =>
              /\ last.evals = 0
              /\ \A a \in Insertable :
                    (Hook("insert") = None \/ a \notin HookAssigns) =>
                        last.params[M[a].name] = last.prevParams[M[a].name]

\* A second insert() of an instance whose callable default was evaluated by
\* the first.
C9_Witness ==
    /\ last.op = "insert"
    /\ last.prevParams # NoParams
    /\ \E a \in Insertable :
          /\ M[a].default.callable
          /\ inst[a] = Time(0)
    /\ clock = 1
    /\ last.clockBefore = 1

StorageFailed == Mutation /\ last.called /\ last.dberr # None
\* The columns the latest call gives a default when the instance has none.
Defaulted ==
    {a \in DOMAIN M : \/ last.op = "insert" /\ M[a].insertable
                      \/ last.op = "update" /\ M[a].updatable}

\* C10 as stated: a failure of the storage primitive propagates, storage is
\* unchanged, no attribute set before the call has another value and none is
\* added but the defaulted columns.
C10_FailureLeavesInstance ==
    StorageFailed =>
        /\ last.raised = last.dberr
        /\ rows = last.rowsBefore
        /\ \A a \in DOMAIN last.pre : HasAttr(inst, a) /\ inst[a] = last.pre[a]
        /\ \A a \in DOMAIN inst \ DOMAIN last.pre : a \in Defaulted

\* C10 amended: the same, except that the attributes the lifecycle hook of
\* the operation assigned keep the value the hook gave them.
C10_FailureLeavesInstanceAfterHook ==
    StorageFailed =>
        /\ last.raised = last.dberr
        /\ rows = last.rowsBefore
        /\ HookedFromPre
        /\ \A a \in DOMAIN last.hooked : HasAttr(inst, a) /\ inst[a] = last.hooked[a]
        /\ \A a \in DOMAIN inst \ DOMAIN last.hooked :
              a \in Defaulted /\ inst[a] \in DefaultsOf(M[a])

\* A failed update whose hook assigned an attribute set before.
C10_Witness ==
    /\ StorageFailed
    /\ last.op = "update"
    /\ \E a \in DOMAIN last.pre : inst[a] # last.pre[a]
    /\ rows # {}

====
